---- MODULE Spec2Model ----
(***************************************************************************)
(* Model of whatsapp/http.py: the Route builder and the HTTPClient request *)
(* pipeline (start / restart / close / request / convenience operations /  *)
(* download_media).                                                        *)
(*                                                                         *)
(* Text is a sequence of fragments (strings).  Braces always stand alone   *)
(* as the fragments "{" and "}", and text that is percent-quoted is a      *)
(* sequence of single characters, so str.format_map and urllib's quote are *)
(* computed fragment by fragment as the library computes them.             *)
(***************************************************************************)
EXTENDS Integers, Sequences, FiniteSets, TLC

VARIABLES phone_id, token, session, route, call

vars == <<phone_id, token, session, route, call>>

---------------------------------------------------------------------------
(* Python values *)

NoneV == [t |-> "none", v |-> <<>>]
StrV(s) == [t |-> "str", v |-> s]
IntV(n) == [t |-> "int", v |-> n]
DictV(d) == [t |-> "dict", v |-> d]
ListV(l) == [t |-> "list", v |-> l]

isinstance_str(v) == v.t = "str"
isinstance_dict(v) == v.t = "dict"

Digits == <<"0", "1", "2", "3", "4", "5", "6", "7", "8", "9">>

RECURSIVE str_int(_)
str_int(n) == IF n < 10 THEN <<Digits[n + 1]>>
              ELSE str_int(n \div 10) \o <<Digits[(n % 10) + 1]>>

\* str(v) / format(v, "") of the values substituted into a template
str(v) == CASE v.t = "str" -> v.v
            [] v.t = "int" -> str_int(v.v)
            [] v.t = "none" -> <<"None">>

---------------------------------------------------------------------------
(* urllib.parse.quote, with its default safe="/" *)

AlwaysSafe == {"a", "b", "c", "d", "e", "f", "g", "h", "i", "j", "k", "l", "m",
               "n", "o", "p", "q", "r", "s", "t", "u", "v", "w", "x", "y", "z",
               "A", "B", "C", "D", "E", "F", "X",
               "0", "1", "2", "3", "4", "5", "6", "7", "8", "9",
               "_", ".", "-", "~"}

\* code points of the characters of the model's alphabet that are not always safe
Ord(c) == CASE c = " " -> 32
            [] c = "%" -> 37
            [] c = "/" -> 47
            [] c = "?" -> 63
            [] c = "{" -> 123
            [] c = "}" -> 125
            [] c = "é" -> 233

Utf8(cp) == IF cp < 128 THEN <<cp>>
            ELSE <<192 + (cp \div 64), 128 + (cp % 64)>>

HexDigits == <<"0", "1", "2", "3", "4", "5", "6", "7", "8", "9",
               "A", "B", "C", "D", "E", "F">>

PercentByte(b) == <<"%", HexDigits[(b \div 16) + 1], HexDigits[(b % 16) + 1]>>

RECURSIVE PercentBytes(_)
PercentBytes(bs) == IF bs = <<>> THEN <<>>
                    ELSE PercentByte(Head(bs)) \o PercentBytes(Tail(bs))

RECURSIVE uriquote(_)
uriquote(s) ==
    IF s = <<>> THEN <<>>
    ELSE (IF Head(s) \in AlwaysSafe \cup {"/"} THEN <<Head(s)>>
          ELSE PercentBytes(Utf8(Ord(Head(s)))))
         \o uriquote(Tail(s))

---------------------------------------------------------------------------
(* str.format_map *)

\* position of the first "}" of s, 0 when there is none
RECURSIVE FindClose(_, _)
FindClose(s, i) == IF i > Len(s) THEN 0
                   ELSE IF s[i] = "}" THEN i
                   ELSE FindClose(s, i + 1)

FormatOk(out) == [err |-> "", out |-> out]
FormatErr(e) == [err |-> e, out |-> <<>>]

RECURSIVE format_map(_, _)
format_map(s, mapping) ==
    IF s = <<>> THEN FormatOk(<<>>)
    ELSE IF Head(s) = "{" THEN
        IF Len(s) >= 2 /\ s[2] = "{" THEN
            LET r == format_map(SubSeq(s, 3, Len(s)), mapping)
            IN IF r.err # "" THEN r ELSE FormatOk(<<"{">> \o r.out)
        ELSE
            LET j == FindClose(s, 2)
                field == SubSeq(s, 2, j - 1)
            IN IF j = 0 THEN FormatErr("ValueError")
               ELSE IF \E i \in 1..Len(field) : field[i] = "{" THEN FormatErr("ValueError")
               ELSE IF Len(field) # 1 THEN FormatErr("KeyError")
               ELSE IF field[1] \notin DOMAIN mapping THEN FormatErr("KeyError")
               ELSE LET r == format_map(SubSeq(s, j + 1, Len(s)), mapping)
                    IN IF r.err # "" THEN r
                       ELSE FormatOk(str(mapping[field[1]]) \o r.out)
    ELSE IF Head(s) = "}" THEN
        IF Len(s) >= 2 /\ s[2] = "}" THEN
            LET r == format_map(SubSeq(s, 3, Len(s)), mapping)
            IN IF r.err # "" THEN r ELSE FormatOk(<<"}">> \o r.out)
        ELSE FormatErr("ValueError")
    ELSE
        LET r == format_map(Tail(s), mapping)
        IN IF r.err # "" THEN r ELSE FormatOk(<<Head(s)>> \o r.out)

---------------------------------------------------------------------------
(* Route *)

API_VERSION == 15

base == <<"https://graph.facebook.com/v">> \o str_int(API_VERSION) \o <<".0">>

\* a Route that substitutes the values as they are
QuotedParameters_unquoted(parameters) == parameters

\* the dict comprehension of Route.__init__: string values are quoted
QuotedParameters(parameters) ==
    [k \in DOMAIN parameters |->
        IF isinstance_str(parameters[k]) THEN StrV(uriquote(parameters[k].v))
        ELSE parameters[k]]

\* Route(method, path, **parameters): err is the exception of the constructor
Route(method, path, parameters) ==
    LET url == base \o path
        f == format_map(url, QuotedParameters(parameters))
    IN IF DOMAIN parameters # {}
       THEN [method |-> method, path |-> path, url |-> f.out, err |-> f.err]
       ELSE [method |-> method, path |-> path, url |-> url, err |-> ""]

NoRoute == [method |-> "", path |-> <<>>, url |-> <<>>, err |-> ""]

---------------------------------------------------------------------------
(* JSON text: a sequence of tokens.  P is punctuation, S a string literal  *)
(* (its characters), N a number literal, W any other word.                 *)

P(x) == [k |-> "p", v |-> x]
S(x) == [k |-> "s", v |-> x]
N(x) == [k |-> "n", v |-> x]
W(x) == [k |-> "w", v |-> x]

IsP(tok, x) == tok.k = "p" /\ tok.v = x

ParseOk(val, rest) == [ok |-> TRUE, val |-> val, rest |-> rest]
ParseFail == [ok |-> FALSE, val |-> NoneV, rest |-> <<>>]

\* characters json.dumps(ensure_ascii=True) escapes, and json.loads restores
EscapeChar(c) == IF c = "é" THEN "\\u00e9" ELSE c
UnescapeChar(c) == IF c = "\\u00e9" THEN "é" ELSE c

RECURSIVE ParseValue(_), ParseMembers(_, _), ParseElements(_, _)

\* after "{" or ",": the members of an object, up to and including "}"
ParseMembers(toks, acc) ==
    IF Len(toks) < 3 \/ toks[1].k # "s" \/ ~IsP(toks[2], ":") THEN ParseFail
    ELSE LET r == ParseValue(SubSeq(toks, 3, Len(toks)))
             key == [i \in 1..Len(toks[1].v) |-> UnescapeChar(toks[1].v[i])]
             acc2 == (key :> r.val) @@ acc
         IN IF ~r.ok \/ r.rest = <<>> THEN ParseFail
            ELSE IF IsP(r.rest[1], "}") THEN ParseOk(DictV(acc2), Tail(r.rest))
            ELSE IF IsP(r.rest[1], ",") THEN ParseMembers(Tail(r.rest), acc2)
            ELSE ParseFail

\* after "[" or ",": the elements of an array, up to and including "]"
ParseElements(toks, acc) ==
    LET r == ParseValue(toks)
        acc2 == Append(acc, r.val)
    IN IF ~r.ok \/ r.rest = <<>> THEN ParseFail
       ELSE IF IsP(r.rest[1], "]") THEN ParseOk(ListV(acc2), Tail(r.rest))
       ELSE IF IsP(r.rest[1], ",") THEN ParseElements(Tail(r.rest), acc2)
       ELSE ParseFail

ParseValue(toks) ==
    IF toks = <<>> THEN ParseFail
    ELSE LET h == Head(toks)
             rest == Tail(toks)
         IN CASE h.k = "s" ->
                    ParseOk(StrV([i \in 1..Len(h.v) |-> UnescapeChar(h.v[i])]), rest)
              [] h.k = "n" -> ParseOk(IntV(h.v), rest)
              [] h.k = "w" -> IF h.v = "null" THEN ParseOk(NoneV, rest) ELSE ParseFail
              [] h.k = "p" ->
                    IF h.v = "{" THEN
                        IF rest # <<>> /\ IsP(rest[1], "}")
                        THEN ParseOk(DictV(<<>>), Tail(rest))
                        ELSE ParseMembers(rest, <<>>)
                    ELSE IF h.v = "[" THEN
                        IF rest # <<>> /\ IsP(rest[1], "]")
                        THEN ParseOk(ListV(<<>>), Tail(rest))
                        ELSE ParseElements(rest, <<>>)
                    ELSE ParseFail

\* response.json(): ok is FALSE where it raises JSONDecodeError
json_loads(text) ==
    LET r == ParseValue(text)
    IN IF r.ok /\ r.rest = <<>> THEN [ok |-> TRUE, val |-> r.val]
       ELSE [ok |-> FALSE, val |-> NoneV]

\* json.dumps(data, separators=(",", ":"), ensure_ascii=True) of the values the
\* model serializes: strings, integers, None and lists of them
RECURSIVE json_dumps(_), DumpElements(_)
DumpElements(l) ==
    IF l = <<>> THEN <<>>
    ELSE IF Len(l) = 1 THEN json_dumps(l[1])
    ELSE json_dumps(l[1]) \o <<P(",")>> \o DumpElements(Tail(l))

json_dumps(data) ==
    CASE data.t = "str" -> <<S([i \in 1..Len(data.v) |-> EscapeChar(data.v[i])])>>
      [] data.t = "int" -> <<N(data.v)>>
      [] data.t = "none" -> <<W("null")>>
      [] data.t = "list" -> <<P("[")>> \o DumpElements(data.v) \o <<P("]")>>

---------------------------------------------------------------------------
(* The client *)

\* self.__session: None, or a requests.Session.  pooled: its adapters hold a
\* connection (it carried an exchange); closed: close() was called on it.
\* Session.close() only empties the adapters' pools, so a closed Session still
\* carries exchanges, on new connections.
NoSession == [state |-> "none", pooled |-> FALSE]
NewSession == [state |-> "open", pooled |-> FALSE]

Self == [phone_id |-> phone_id, token |-> token, session |-> session]

user_agent == <<"WhatsappBot">>

Absent == [t |-> "absent", v |-> <<>>]

\* requests.Response: the attributes the client reads.  It has status_code, text
\* and content, and no attribute named status
Response(env) == [status_code |-> env.status_code, text |-> env.text]
NoResponse == [status_code |-> 0, text |-> <<>>]
content(response) == [t |-> "bytes", v |-> response.text]
HasAttr(obj, name) == name \in DOMAIN obj

\* errors.py: the exception classes derived from HTTPException
HTTPExceptionFamily == {"HTTPException", "BadRequest", "Unauthorized", "Forbidden",
                        "NotFound", "WhatsappServerError"}
IsHTTPException(exc) == exc \in HTTPExceptionFamily

Return(value, response) ==
    [kind |-> "return", exc |-> "", value |-> value, response |-> response, cause |-> ""]
Raise(exc, response, value) ==
    [kind |-> "raise", exc |-> exc, value |-> value, response |-> response, cause |-> ""]

Outcome(result, sess, sent, rt) ==
    [result |-> result, session |-> sess, sent |-> sent, route |-> rt]

\* the headers both request and download_media build (lines 101-103, 186-188)
AuthHeaders(self) ==
    IF self.token.t # "none"
    THEN ("Authorization" :> (<<"Bearer ">> \o self.token.v)) @@ ("User-Agent" :> user_agent)
    ELSE ("User-Agent" :> user_agent)

\* a status test that takes 200 alone for success
StatusMapping_only200(response, data) ==
    IF response.status_code = 200 THEN Return(data, response)
    ELSE Raise("AttributeError", NoResponse, NoneV)

\* lines 133-148: the status branches of request
StatusMapping(response, data) ==
    IF 200 <= response.status_code /\ response.status_code < 300 THEN Return(data, response)
    ELSE IF ~HasAttr(response, "status") THEN Raise("AttributeError", NoResponse, NoneV)
    ELSE IF response.status = 400 THEN Raise("BadRequest", response, data)
    ELSE IF response.status = 401 THEN Raise("Unauthorized", response, data)
    ELSE IF response.status = 403 THEN Raise("Forbidden", response, data)
    ELSE IF response.status = 404 THEN Raise("NotFound", response, data)
    ELSE IF response.status_code = 429 THEN Raise("HTTPException", response, data)
    ELSE IF response.status >= 500 THEN Raise("WhatsappServerError", response, data)
    ELSE Raise("HTTPException", response, data)

\* lines 128-131: the decoded body
Decode(response) ==
    LET j == json_loads(response.text)
    IN IF j.ok THEN j.val ELSE [t |-> "text", v |-> response.text]

\* lines 104-112: the headers and the body of the outgoing call
RequestHeaders(self, kwargs) ==
    IF kwargs.json.t # "absent"
    THEN ("Content-Type" :> <<"application/json">>) @@ AuthHeaders(self)
    ELSE AuthHeaders(self)

RequestData(kwargs) ==
    IF kwargs.json.t = "absent" THEN Absent
    ELSE IF isinstance_dict(kwargs.json) THEN kwargs.json
    ELSE [t |-> "serialized", v |-> json_dumps(kwargs.json)]

\* lines 122-124: every file is opened, the last one is attached
AttachedFiles(files) == IF files = <<>> THEN <<>> ELSE <<files[Len(files)]>>

\* a pipeline that tries again after a transport fault or a 429
Exchanges_retry(exchange, env) ==
    IF env.fault \/ env.status_code = 429 THEN <<exchange, exchange>> ELSE <<exchange>>

\* line 127 (and line 189): the calls made on the session, one
Exchanges(exchange, env) == <<exchange>>

\* request: a failing open() (line 124) and a missing session (line 127) raise
\* before any exchange; a transport fault is an OSError, re-raised as it is
\* (lines 149-150)
request(self, rt, kwargs, env) ==
    LET headers == RequestHeaders(self, kwargs)
        exchange == Exchanges([method |-> rt.method, url |-> rt.url, headers |-> headers,
                               data |-> RequestData(kwargs),
                               files |-> AttachedFiles(kwargs.files)], env)
        used == [self.session EXCEPT !.pooled = TRUE]
        response == Response(env)
    IN IF kwargs.files # <<>> /\ ~env.file_ok
       THEN Outcome(Raise("FileNotFoundError", NoResponse, NoneV), self.session, <<>>, rt)
       ELSE IF self.session.state = "none"
       THEN Outcome(Raise("AttributeError", NoResponse, NoneV), self.session, <<>>, rt)
       ELSE IF env.fault
       THEN Outcome(Raise("ConnectionError", NoResponse, NoneV), used, exchange, rt)
       ELSE Outcome(StatusMapping(response, Decode(response)), used, exchange, rt)

NoFiles == <<>>

fetch_business_profile(self, env) ==
    LET rt == Route("GET", <<"/", "{", "phone_id", "}", "/whatsapp_business_profile">>,
                    "phone_id" :> self.phone_id)
    IN request(self, rt, [json |-> Absent, files |-> NoFiles], env)

send_message(self, payload, env) ==
    LET rt == Route("POST", <<"/", "{", "phone_id", "}", "/messages">>,
                    "phone_id" :> self.phone_id)
    IN request(self, rt, [json |-> payload, files |-> NoFiles], env)

read_message(self, message_id, env) ==
    LET rt == Route("POST", <<"/", "{", "phone_id", "}", "/messages">>,
                    "phone_id" :> self.phone_id)
        payload == DictV([messaging_product |-> StrV(<<"whatsapp">>),
                          status |-> StrV(<<"read">>),
                          message_id |-> message_id])
    IN request(self, rt, [json |-> payload, files |-> NoFiles], env)

upload_media(self, file, filename, mime_type, env) ==
    LET rt == Route("POST", <<"/", "{", "phone_id", "}", "/media">>,
                    "phone_id" :> self.phone_id)
        payload == DictV([messaging_product |-> StrV(<<"whatsapp">>)])
        files == <<[filename |-> filename, file |-> file, mime_type |-> mime_type]>>
    IN request(self, rt, [json |-> payload, files |-> files], env)

fetch_media_url(self, media_id, env) ==
    LET rt == Route("GET", <<"/", "{", "media_id", "}">>, "media_id" :> media_id)
    IN request(self, rt, [json |-> Absent, files |-> NoFiles], env)

delete_media(self, media_id, env) ==
    LET rt == Route("DELETE", <<"/", "{", "media_id", "}">>, "media_id" :> media_id)
    IN request(self, rt, [json |-> Absent, files |-> NoFiles], env)

\* a download that types server errors as request is meant to
DownloadMapping_server_error(response) ==
    IF response.status_code = 200 THEN Return(content(response), response)
    ELSE IF response.status_code = 404
         THEN Raise("NotFound", response, StrV(<<"asset not found">>))
    ELSE IF response.status_code = 403
         THEN Raise("Forbidden", response, StrV(<<"cannot retrieve asset">>))
    ELSE IF response.status_code >= 500
         THEN Raise("WhatsappServerError", response, StrV(<<"failed to get asset">>))
    ELSE Raise("HTTPException", response, StrV(<<"failed to get asset">>))

\* lines 191-198: the status branches of download_media
DownloadMapping(response) ==
    IF response.status_code = 200 THEN Return(content(response), response)
    ELSE IF response.status_code = 404
         THEN Raise("NotFound", response, StrV(<<"asset not found">>))
    ELSE IF response.status_code = 403
         THEN Raise("Forbidden", response, StrV(<<"cannot retrieve asset">>))
    ELSE Raise("HTTPException", response, StrV(<<"failed to get asset">>))

download_media(self, media_url, env) ==
    LET headers == AuthHeaders(self)
        exchange == Exchanges([method |-> "GET", url |-> media_url, headers |-> headers,
                               data |-> Absent, files |-> <<>>], env)
        used == [self.session EXCEPT !.pooled = TRUE]
        response == Response(env)
    IN IF self.session.state = "none"
       THEN Outcome(Raise("AttributeError", NoResponse, NoneV), self.session, <<>>, NoRoute)
       ELSE IF env.fault
       THEN Outcome(Raise("ConnectionError", NoResponse, NoneV), used, exchange, NoRoute)
       ELSE Outcome(DownloadMapping(response), used, exchange, NoRoute)

\* the attributes class HTTPClient defines
HTTPClientAttrs == {"start", "restart", "close", "request", "fetch_business_profile",
                    "send_message", "read_message", "upload_media", "fetch_media_url",
                    "delete_media", "download_media"}

\* self.<name>(...) as start calls it (line 78): AttributeError when the class
\* defines no such attribute
CallMethod(self, name, env) ==
    IF name \notin HTTPClientAttrs
    THEN Outcome(Raise("AttributeError", NoResponse, NoneV), self.session, <<>>, NoRoute)
    ELSE fetch_business_profile(self, env)

\* start: the new credential fields and the outcome
StartOutcome(self, o) == [self |-> self, o |-> o]

\* a start whose except clause takes every exception
start_except_any(self, new_phone_id, new_token, env) ==
    LET staged == [phone_id |-> new_phone_id, token |-> new_token, session |-> NewSession]
        o == CallMethod(staged, "get_business_profile", env)
        after == [staged EXCEPT !.session = o.session]
    IN IF o.result.kind = "raise"
       THEN StartOutcome(
              [after EXCEPT !.phone_id = self.phone_id, !.token = self.token],
              [o EXCEPT !.result =
                  [Raise("HTTPException", NoResponse,
                         StrV(<<"Improper phone_id and/or token has been passed.">>))
                   EXCEPT !.cause = o.result.exc]])
       ELSE StartOutcome(after, o)

start(self, new_phone_id, new_token, env) ==
    LET staged == [phone_id |-> new_phone_id, token |-> new_token, session |-> NewSession]
        o == CallMethod(staged, "get_business_profile", env)
        after == [staged EXCEPT !.session = o.session]
    IN IF o.result.kind = "raise" /\ IsHTTPException(o.result.exc)
       THEN StartOutcome(
              [after EXCEPT !.phone_id = self.phone_id, !.token = self.token],
              [o EXCEPT !.result =
                  [Raise("HTTPException", NoResponse,
                         StrV(<<"Improper phone_id and/or token has been passed.">>))
                   EXCEPT !.cause = o.result.exc]])
       ELSE StartOutcome(after, o)

restart_session(self) == NewSession

close_session(self) ==
    IF self.session.state # "none"
    THEN [self.session EXCEPT !.state = "closed", !.pooled = FALSE]
    ELSE self.session

---------------------------------------------------------------------------
(* Inputs: what callers pass and what the server answers *)

\* the (phone_id, token) pairs passed to start
Credentials == {<<StrV(<<"1", "2">>), StrV(<<"t1">>)>>,
                <<StrV(<<"a", " ", "b">>), StrV(<<"t2">>)>>}

\* {"messages":[{"id":"wamid.X"}]}
ExampleBody == <<P("{"), S(<<"messages">>), P(":"), P("["), P("{"), S(<<"id">>), P(":"),
                 S(<<"wamid.X">>), P("}"), P("]"), P("}")>>
ExampleMapping ==
    DictV(<<"messages">> :> ListV(<<DictV(<<"id">> :> StrV(<<"wamid.X">>))>>))

\* <html>Bad Gateway   and   {"error":   (truncated JSON)
HtmlBody == <<W("<html>"), W("Bad"), W("Gateway")>>
TruncatedBody == <<P("{"), S(<<"error">>), P(":")>>

Bodies == {ExampleBody, HtmlBody, TruncatedBody}
Statuses == {200, 204, 299, 300, 400, 401, 403, 404, 418, 429, 500, 503}

Answer(status_code, text) ==
    [fault |-> FALSE, status_code |-> status_code, text |-> text, file_ok |-> TRUE]
Fault == [fault |-> TRUE, status_code |-> 0, text |-> <<>>, file_ok |-> TRUE]
NoEnv == [fault |-> FALSE, status_code |-> 0, text |-> <<>>, file_ok |-> TRUE]

Envs == {Fault}
        \cup {Answer(c, ExampleBody) : c \in Statuses}
        \cup {Answer(c, b) : c \in {200, 404}, b \in Bodies}

\* send_message({"to": "123", "type": "text", "text": {"body": "hi"}})
ExamplePayload ==
    DictV([to |-> StrV(<<"123">>), type |-> StrV(<<"text">>),
           text |-> DictV([body |-> StrV(<<"hi">>)])])

Payloads == {ExamplePayload}

\* json= values of a direct request call: absent, a mapping, and values that are
\* not mappings
FileArg == [filename |-> "a.png", file |-> "/tmp/a.png", mime_type |-> "image/png"]
OtherFileArg == [filename |-> "b.png", file |-> "/tmp/b.png", mime_type |-> "image/png"]

\* the options of a direct request call: json= absent, a mapping, or a value that
\* is no mapping; files= absent, or two files
RequestKwargs ==
    {[json |-> j, files |-> <<>>] :
        j \in {Absent, ExamplePayload, ListV(<<StrV(<<"h", "é">>), IntV(1)>>),
               StrV(<<"hi">>), NoneV}}
    \cup {[json |-> ExamplePayload, files |-> <<FileArg, OtherFileArg>>]}

MediaIds == {StrV(<<"m", "/", "1">>), IntV(7)}
MediaUrls == {<<"https://cdn.example/m1">>}

\* the routes a direct caller of request builds
RequestRoutes ==
    {<<"GET", <<"/", "{", "media_id", "}">>, "media_id" :> StrV(<<"m", "?">>)>>}

---------------------------------------------------------------------------
(* Route inputs of the Route specification *)

Methods == {"GET", "POST"}

Templates ==
    {<<"/messages">>,
     <<"/", "{", "id", "}">>,
     <<"/", "{", "id", "}", "/media/", "{", "name", "}">>,
     <<"/", "{", "id", "}", "/", "{", "id", "}">>,
     <<"/", "{", "{", "id", "}", "}">>,
     <<"/", "{", "id">>,
     <<"/", "id", "}">>,
     <<"/", "{", "}">>}

ParamValues ==
    {StrV(<<"a", " ", "b">>), StrV(<<"x", "/", "y">>), StrV(<<"{", "i", "d", "}">>),
     StrV(<<"é", "%">>), StrV(<<>>), IntV(7), IntV(API_VERSION), NoneV}

ParamMaps ==
    {<<>>}
    \cup {("id" :> a) : a \in ParamValues}
    \cup {("name" :> a) : a \in ParamValues}
    \cup {("id" :> a) @@ ("name" :> b) : a \in ParamValues, b \in ParamValues}

---------------------------------------------------------------------------
(* State *)

NoCall == [op |-> "", args |-> <<>>, prior |-> [phone_id |-> NoneV, token |-> NoneV,
                                                session |-> NoSession],
           env |-> NoEnv, result |-> Return(NoneV, NoResponse), sent |-> <<>>,
           repeat |-> FALSE]

Called(op, args, env, result, sent) ==
    [op |-> op, args |-> args, prior |-> Self, env |-> env, result |-> result,
     sent |-> sent, repeat |-> (call.op = op)]

\* HTTPClient(), with no proxy: lines 61-65
Init ==
    /\ phone_id = NoneV
    /\ token = NoneV
    /\ session = NoSession
    /\ route = NoRoute
    /\ call = NoCall

\* an operation that leaves the credential fields alone
Performed(op, args, env, o) ==
    /\ session' = o.session
    /\ route' = o.route
    /\ call' = Called(op, args, env, o.result, o.sent)
    /\ UNCHANGED <<phone_id, token>>

Start ==
    \E c \in Credentials, env \in Envs :
        LET p == c[1]
            t == c[2]
            r == start(Self, p, t, env)
        IN /\ phone_id' = r.self.phone_id
           /\ token' = r.self.token
           /\ session' = r.self.session
           /\ route' = r.o.route
           /\ call' = Called("start", [phone_id |-> p, token |-> t], env,
                             r.o.result, r.o.sent)

\* a restart that constructs the client anew
Restart_reset ==
    /\ session' = restart_session(Self)
    /\ phone_id' = NoneV
    /\ token' = NoneV
    /\ call' = Called("restart", <<>>, NoEnv, Return(NoneV, NoResponse), <<>>)
    /\ UNCHANGED route

Restart ==
    /\ session' = restart_session(Self)
    /\ call' = Called("restart", <<>>, NoEnv, Return(NoneV, NoResponse), <<>>)
    /\ UNCHANGED <<phone_id, token, route>>

Close ==
    /\ session' = close_session(Self)
    /\ call' = Called("close", <<>>, NoEnv, Return(NoneV, NoResponse), <<>>)
    /\ UNCHANGED <<phone_id, token, route>>

Request ==
    \E r \in RequestRoutes, kwargs \in RequestKwargs, env \in Envs, ok \in BOOLEAN :
          /\ (kwargs.files = <<>> => ok)
          /\ LET e == [env EXCEPT !.file_ok = ok]
             IN Performed("request", [route |-> r, kwargs |-> kwargs], e,
                          request(Self, Route(r[1], r[2], r[3]), kwargs, e))

FetchBusinessProfile ==
    \E env \in Envs :
          Performed("fetch_business_profile", <<>>, env, fetch_business_profile(Self, env))

SendMessage ==
    \E payload \in Payloads, env \in Envs :
          Performed("send_message", payload, env, send_message(Self, payload, env))

ReadMessage ==
    \E env \in Envs :
          Performed("read_message", StrV(<<"wamid.X">>), env,
                    read_message(Self, StrV(<<"wamid.X">>), env))

UploadMedia ==
    \E env \in Envs, ok \in BOOLEAN :
          LET e == [env EXCEPT !.file_ok = ok]
          IN Performed("upload_media", FileArg, e,
                       upload_media(Self, FileArg.file, FileArg.filename,
                                    FileArg.mime_type, e))

FetchMediaUrl ==
    \E m \in MediaIds, env \in Envs :
          Performed("fetch_media_url", m, env, fetch_media_url(Self, m, env))

DeleteMedia ==
    \E m \in MediaIds, env \in Envs :
          Performed("delete_media", m, env, delete_media(Self, m, env))

DownloadMedia ==
    \E u \in MediaUrls, env \in Envs :
          LET o == download_media(Self, u, env)
          IN /\ session' = o.session
             /\ call' = Called("download_media", u, env, o.result, o.sent)
             /\ UNCHANGED <<phone_id, token, route>>

Next ==
    \/ Start
    \/ Restart
    \/ Close
    \/ Request
    \/ FetchBusinessProfile
    \/ SendMessage
    \/ ReadMessage
    \/ UploadMedia
    \/ FetchMediaUrl
    \/ DeleteMedia
    \/ DownloadMedia

Spec == Init /\ [][Next]_vars

\* Route(method, path, **parameters) on its own, for every input of the bounded sets
NewRoute ==
    \E m \in Methods, path \in Templates, parameters \in ParamMaps :
        /\ route' = Route(m, path, parameters)
        /\ call' = [NoCall EXCEPT !.op = "Route",
                                  !.args = [method |-> m, path |-> path,
                                            parameters |-> parameters]]
        /\ UNCHANGED <<phone_id, token, session>>

NextRoute == NewRoute

SpecRoute == Init /\ [][NextRoute]_vars

---------------------------------------------------------------------------
(* Properties *)

\* the operations that go through request
RequestOps == {"request", "fetch_business_profile", "send_message", "read_message",
               "upload_media", "fetch_media_url", "delete_media"}

ApiFailures == {"HTTPException", "BadRequest", "Unauthorized", "Forbidden", "NotFound",
                "WhatsappServerError"}

Answered == ~call.env.fault
Success == 200 <= call.env.status_code /\ call.env.status_code < 300

\* the call reached the session: there was one, and every file opened
ReachedSession == call.prior.session.state # "none" /\ call.env.file_ok

\* C1: when the validation call of start(p, t) is answered by a non-2xx status,
\* start raises the wrapped "invalid credentials" failure and the credential
\* fields are those from before the call.
C1_StartInvalidRollsBack ==
    (call.op = "start" /\ Answered /\ ~Success)
        => /\ call.result.kind = "raise"
           /\ call.result.exc = "HTTPException"
           /\ call.result.cause \in ApiFailures
           /\ phone_id = call.prior.phone_id
           /\ token = call.prior.token

\* C2: when the validation call of start(p, t) is answered by a 2xx status, start
\* returns the decoded profile of one GET scoped to p, and the credential fields
\* are p and t.
C2_StartValidCommits ==
    (call.op = "start" /\ Answered /\ Success)
        => /\ call.result.kind = "return"
           /\ Len(call.sent) = 1
           /\ call.sent[1].method = "GET"
           /\ phone_id = call.args.phone_id
           /\ token = call.args.token

\* the failure the ordered status mapping names for a non-2xx status
ExpectedFailure(code) ==
    IF code = 400 THEN "BadRequest"
    ELSE IF code = 401 THEN "Unauthorized"
    ELSE IF code = 403 THEN "Forbidden"
    ELSE IF code = 404 THEN "NotFound"
    ELSE IF code = 429 THEN "HTTPException"
    ELSE IF code >= 500 THEN "WhatsappServerError"
    ELSE "HTTPException"

\* C3: a non-2xx status answered to request raises the failure the ordered
\* mapping names, carrying the response status and the decoded body, and never
\* returns.
C3_StatusMapping ==
    (call.op \in RequestOps /\ ReachedSession /\ Answered /\ ~Success)
        => /\ call.result.kind = "raise"
           /\ call.result.exc = ExpectedFailure(call.env.status_code)
           /\ call.result.response.status_code = call.env.status_code
           /\ call.result.value.t \in {"dict", "text"}

\* C4: a status in [200,300) answered to request returns the parsed JSON value
\* when the body is JSON and the raw text when it is not; send_message on a 200
\* with body {"messages":[{"id":"wamid.X"}]} returns that mapping.
C4_SuccessReturnsDecoded ==
    (call.op \in RequestOps /\ ReachedSession /\ Answered /\ Success)
        => /\ call.result.kind = "return"
           /\ (call.env.text = ExampleBody => call.result.value = ExampleMapping)
           /\ (call.env.text \in {HtmlBody, TruncatedBody}
                 => /\ call.result.value.t = "text"
                    /\ call.result.value.v = call.env.text)

C4_Witness ==
    /\ call.op = "send_message"
    /\ call.args = ExamplePayload
    /\ call.env = Answer(200, ExampleBody)
    /\ call.result.kind = "return"
    /\ call.result.value = ExampleMapping

\* a template of literal fragments and {name} placeholders, each supplied
RECURSIVE Supplied(_, _)
Supplied(path, names) ==
    IF path = <<>> THEN TRUE
    ELSE IF Head(path) = "}" THEN FALSE
    ELSE IF Head(path) # "{" THEN Supplied(Tail(path), names)
    ELSE /\ Len(path) >= 3
         /\ path[2] \in names
         /\ path[3] = "}"
         /\ Supplied(SubSeq(path, 4, Len(path)), names)

FixedBase == <<"https://graph.facebook.com/v", "1", "5", ".0">>

HexChars == {"0", "1", "2", "3", "4", "5", "6", "7", "8", "9", "A", "B", "C", "D", "E", "F"}

IdIs(v) == /\ call.args.path = <<"/", "{", "id", "}">>
           /\ "id" \in DOMAIN call.args.parameters
           /\ call.args.parameters["id"].t = v.t
           /\ call.args.parameters["id"].v = v.v

RECURSIVE Count(_, _)
Count(seq, c) == IF seq = <<>> THEN 0
                 ELSE (IF Head(seq) = c THEN 1 ELSE 0) + Count(Tail(seq), c)

C7_RestartCloseKeepCredentials ==
    (call.op \in {"restart", "close"})
        => /\ phone_id = call.prior.phone_id
           /\ token = call.prior.token
           /\ call.op = "restart" => session = [state |-> "open", pooled |-> FALSE]
           /\ call.op = "close" => (session.state # "open" /\ ~session.pooled)

C7_Witness ==
    /\ call.op = "restart"
    /\ call.repeat
    /\ phone_id.t = "str"
    /\ token.t = "str"
    /\ session = [state |-> "open", pooled |-> FALSE]

\* C8: a call of request, or of an operation built on it, never makes a second
\* HTTP exchange, and makes exactly one whenever it reaches the session: on a
\* 2xx answer, on a 429 or any other non-2xx answer, and on a transport fault.
C8_SingleAttempt ==
    (call.op \in RequestOps)
        => /\ Len(call.sent) <= 1
           /\ ReachedSession => Len(call.sent) = 1

C8_Witness ==
    /\ call.op = "request"
    /\ call.env.status_code = 429
    /\ Len(call.sent) = 1

\* C9: the outgoing call of request carries Content-Type: application/json
\* exactly when the client serialized the body; a body that is already a
\* mapping is sent as it is, without that header.
C9_ContentTypeIffSerialized ==
    (call.op \in RequestOps /\ Len(call.sent) = 1)
        => ("Content-Type" \in DOMAIN call.sent[1].headers
              <=> call.sent[1].data.t = "serialized")

\* C10: start rolls back and wraps only failures of the API family: when start
\* fails with any other failure, that failure is the one raised, unwrapped, and
\* the credential fields hold the values passed to start.
C10_OtherFailureKeepsStaged ==
    (call.op = "start" /\ call.result.kind = "raise")
        => /\ call.result.cause # "" => call.result.cause \in ApiFailures
           /\ call.result.exc \notin ApiFailures
                 => /\ call.result.cause = ""
                    /\ phone_id = call.args.phone_id
                    /\ token = call.args.token

C10_Witness ==
    /\ call.op = "start"
    /\ call.result.kind = "raise"
    /\ call.result.exc = "AttributeError"
    /\ call.prior.phone_id.t = "str"
    /\ call.prior.phone_id # call.args.phone_id
    /\ phone_id = call.args.phone_id
    /\ token = call.args.token

====
